---- MODULE Spec2Model ----
(***************************************************************************)
(* The translation QC workflow of src/components/TranslationTool.tsx and   *)
(* the gateway loop of src/services/geminiService.ts (translateDocument).  *)
(*                                                                         *)
(* The persisted store is the JSON array under the localStorage key        *)
(* 'aide_translation_metrics'.  The component state is the React state of  *)
(* one mounted TranslationTool.  State updates made by one handler (or by  *)
(* one continuation after an await) are committed together (React 18       *)
(* batching), so each handler, and each continuation, is one action.       *)
(*                                                                         *)
(* A page text is represented by the sequence text.split(/\s+/) yields:    *)
(* a leading (trailing) "" token stands for leading (trailing) whitespace, *)
(* and <<"">> is the empty text.                                           *)
(***************************************************************************)
EXTENDS Integers, Sequences, FiniteSets, TLC

(***************************************************************************)
(* Bounds of the model.                                                    *)
(***************************************************************************)
MaxUploads == 2
MaxRationales == 2
MaxLogs == 3              \* stored logs handed to generateTrackingId
MaxPageWords == 12        \* words of a page handed to calculateMetrics
MaxCalls == 2             \* repeated calls of calculateMetrics on the same pages
MaxTextLen == 5           \* symbols of a text handed to extractJson
MaxPages == 3             \* pages handed to translateDocument
MaxQcSeconds == 2         \* seconds the QC timer counts
MaxSessionUploads == 4    \* uploads when only uploads and translations are taken
MaxTextChars == 4         \* characters of a page text handed to split
MaxWordIndex == 2         \* word index handed to confirmIntervention
MaxAltCalls == 2          \* suggestion requests in flight at a time

(***************************************************************************)
(* Inputs.  An uploaded document is the sequence of its pages, each page   *)
(* given by the number of words calculateMetrics counts in it: a one-page  *)
(* document of 200 words and a two-page document of 3 + 5 words.  With     *)
(* these word counts and the weights reachable here the double arithmetic  *)
(* of line 324 and exact arithmetic agree.  The gateway answers a page     *)
(* with a text from Responses; the reviewer picks a replacement from Alts. *)
(***************************************************************************)
Documents == {<<200>>, <<3, 5>>}
Responses == {<<"a">>}
Alts == {<<"x">>}
Severities == {"Minor", "Major", "Critical"}
RationaleTexts == {"", "r"}

Year == 2026
NoIndex == -1
Undefined == -1
NoTrackingId == <<0, 0>>

Max(a, b) == IF a >= b THEN a ELSE b
Min(a, b) == IF a <= b THEN a ELSE b

RECURSIVE SumSeq(_)
SumSeq(s) == IF s = <<>> THEN 0 ELSE Head(s) + SumSeq(Tail(s))

VARIABLES
    store,                \* localStorage['aide_translation_metrics']
    currentTrackingId, currentLogId, initiateTranslation,
    sourcePages, editedPages, currentPage, wordCount,
    isReviewMode, qcStatus, rationales,
    isWordModalOpen, selectedWordData,
    isReading, isPaused, highlightedWordIndex,
    isLoading,
    translateCall,        \* the handleTranslate call in flight: its closure and results
    synthSpeaking, synthPaused, utteranceWords,   \* window.speechSynthesis
    now,                  \* Date.now(), counted in uploads
    lastOp,               \* the handler that ran last ("other": one no claim names)
    qcSeconds,            \* the QC elapsed-seconds counter (line 48)
    alternatives, isFetchingAlts,    \* the suggestions of the dialog (lines 55-56)
    altCalls,             \* the getAlternateSuggestions calls in flight
    arg, out              \* the argument and the result of a function under check

storeVars == <<store>>
headerVars == <<currentTrackingId, currentLogId, initiateTranslation>>
contentVars == <<sourcePages, editedPages, currentPage, wordCount>>
qcVars == <<isReviewMode, qcStatus, rationales>>
modalVars == <<isWordModalOpen, selectedWordData>>
voiceVars == <<isReading, isPaused, highlightedWordIndex>>
synthVars == <<synthSpeaking, synthPaused, utteranceWords>>
fetchVars == <<alternatives, isFetchingAlts, altCalls>>
otherVars == <<qcSeconds, alternatives, isFetchingAlts, altCalls, arg, out>>
componentVars == <<store, currentTrackingId, currentLogId, initiateTranslation,
                   sourcePages, editedPages, currentPage, wordCount,
                   isReviewMode, qcStatus, rationales,
                   isWordModalOpen, selectedWordData,
                   isReading, isPaused, highlightedWordIndex, isLoading, translateCall,
                   synthSpeaking, synthPaused, utteranceWords, now, lastOp, qcSeconds,
                   alternatives, isFetchingAlts, altCalls>>
vars == <<store, currentTrackingId, currentLogId, initiateTranslation,
          sourcePages, editedPages, currentPage, wordCount,
          isReviewMode, qcStatus, rationales,
          isWordModalOpen, selectedWordData,
          isReading, isPaused, highlightedWordIndex, isLoading, translateCall,
          synthSpeaking, synthPaused, utteranceWords, now, lastOp,
          qcSeconds, alternatives, isFetchingAlts, altCalls, arg, out>>

(***************************************************************************)
(* Status order of the session state machine.                              *)
(***************************************************************************)
Rank(s) ==
    CASE s = "Draft" -> 0
      [] s = "QC Pending" -> 1
      [] s = "QC Finalized" -> 2
      [] s = "Downloaded" -> 3

(***************************************************************************)
(* generateTrackingId: "{year}-{seq}" as <<year, seq>>; a stored id starts *)
(* with the year string exactly when its year component is that year.      *)
(***************************************************************************)
yearLogs(logs, year) == {i \in 1..Len(logs) : logs[i].trackingId[1] = year}

\* a generator that counts the logs of the year before
generateTrackingIdOfLastYear(logs, year) ==
    <<year, Cardinality(yearLogs(logs, year - 1)) + 1>>

generateTrackingId(logs, year) == <<year, Cardinality(yearLogs(logs, year)) + 1>>

(***************************************************************************)
(* The tracking id as the string of line 16.  A string is the sequence of  *)
(* its characters.                                                         *)
(***************************************************************************)
DigitChars == <<"0", "1", "2", "3", "4", "5", "6", "7", "8", "9">>

\* Number.prototype.toString of a non-negative integer
RECURSIVE toString(_)
toString(n) ==
    IF n < 10 THEN <<DigitChars[n + 1]>>
    ELSE toString(n \div 10) \o <<DigitChars[(n % 10) + 1]>>

RECURSIVE padStart(_, _, _)
padStart(str, len, ch) ==
    IF Len(str) >= len THEN str ELSE padStart(<<ch>> \o str, len, ch)

startsWith(str, prefix) ==
    Len(prefix) <= Len(str) /\ SubSeq(str, 1, Len(prefix)) = prefix

\* the string a tracking id <<year, seq>> of the model stands for
trackingIdString(id) == toString(id[1]) \o <<"-">> \o padStart(toString(id[2]), 3, "0")

\* a generator that counts every stored log, whatever its year
generateTrackingIdStringOfAll(trackingIds, year) ==
    toString(year) \o <<"-">> \o padStart(toString(Len(trackingIds) + 1), 3, "0")

\* lines 11-17 over the tracking id strings of the stored logs
generateTrackingIdString(trackingIds, year) ==
    LET currentYear == toString(year)
        yearLogsOf == SelectSeq(trackingIds, LAMBDA t : startsWith(t, currentYear))
    IN currentYear \o <<"-">> \o padStart(toString(Len(yearLogsOf) + 1), 3, "0")

(***************************************************************************)
(* metrics.findIndex(m => m.id === currentLogId): 0 stands for -1.         *)
(***************************************************************************)
findIndex(logs, id) ==
    IF \E i \in 1..Len(logs) : logs[i].id = id
    THEN CHOOSE i \in 1..Len(logs) :
            /\ logs[i].id = id
            /\ \A j \in 1..Len(logs) : logs[j].id = id => i <= j
    ELSE 0

updatePersistentStatusAll(logs, id, newStatus) ==
    [i \in 1..Len(logs) |-> [logs[i] EXCEPT !.status = newStatus]]

updatePersistentStatus(logs, id, newStatus) ==
    LET idx == findIndex(logs, id)
    IN IF idx > 0 THEN [logs EXCEPT ![idx].status = newStatus] ELSE logs

(***************************************************************************)
(* calculateMetrics: the words of pages.join(' ').                         *)
(***************************************************************************)
calculateMetrics(pages) == SumSeq(pages)

\* TOKEN_FACTOR = 1.35 in hundredths, COST_PER_1M_TOKENS = 0.75 in cents
TokenFactorPercent == 135
CostPerMillionCents == 75

\* the component right after it mounted (the useState initial values)
Mounted ==
    /\ store = <<>>
    /\ currentTrackingId = NoTrackingId
    /\ currentLogId = 0
    /\ initiateTranslation = FALSE
    /\ sourcePages = <<>>
    /\ editedPages = <<>>
    /\ currentPage = 0
    /\ wordCount = 0
    /\ isReviewMode = FALSE
    /\ qcStatus = "Draft"
    /\ rationales = <<>>
    /\ isWordModalOpen = FALSE
    /\ selectedWordData = <<>>
    /\ isReading = FALSE
    /\ isPaused = FALSE
    /\ highlightedWordIndex = NoIndex
    /\ isLoading = FALSE
    /\ translateCall = <<>>
    /\ synthSpeaking = FALSE
    /\ synthPaused = FALSE
    /\ utteranceWords = 0
    /\ now = 0
    /\ lastOp = "mount"
    /\ qcSeconds = 0
    /\ alternatives = <<>>
    /\ isFetchingAlts = FALSE
    /\ altCalls = <<>>

Init ==
    /\ Mounted
    /\ arg = <<>>
    /\ out = <<>>

(***************************************************************************)
(* Page texts.  IsDefined: editedPages[currentPage] is not undefined.      *)
(***************************************************************************)
IsDefined(pages, page) == page >= 0 /\ page < Len(pages)

NonEmptyTokens(ws) == SelectSeq(ws, LAMBDA w : w # "")

\* text.trim().split(/\s+/), the words the review view renders (line 581)
TrimSplit(ws) ==
    LET lo == IF ws[1] = "" THEN 2 ELSE 1
        hi == IF ws[Len(ws)] = "" THEN Len(ws) - 1 ELSE Len(ws)
    IN IF lo > hi THEN <<"">> ELSE SubSeq(ws, lo, hi)

\* words.join(' ') read back by split(/\s+/): inner runs of blanks collapse
SplitJoin(ws) ==
    LET inner == NonEmptyTokens(ws)
        lead == Len(ws) >= 2 /\ ws[1] = ""
        trail == Len(ws) >= 2 /\ ws[Len(ws)] = ""
    IN IF inner = <<>>
       THEN (IF Len(ws) <= 1 THEN <<"">> ELSE <<"", "">>)
       ELSE (IF lead THEN <<"">> ELSE <<>>) \o inner \o (IF trail THEN <<"">> ELSE <<>>)

\* words[index] = alt on a JS array: an index past the end leaves holes,
\* which join(' ') writes as empty strings
SetWord(words, index, alt) ==
    LET n == Max(Len(words), index + 1)
        padded == [j \in 1..n |-> IF j <= Len(words) THEN words[j] ELSE ""]
    IN SubSeq(padded, 1, index) \o alt \o SubSeq(padded, index + 2, n)

(***************************************************************************)
(* MQM scoring of confirmIntervention (lines 317-324).                     *)
(***************************************************************************)
SeverityWeight(sev) ==
    IF sev = "Minor" THEN 1 ELSE IF sev = "Major" THEN 5 ELSE 10

RECURSIVE SumWeights(_)
SumWeights(rs) ==
    IF rs = <<>> THEN 0 ELSE SeverityWeight(Head(rs).mqmSeverity) + SumWeights(Tail(rs))

LatestWeight(rs) ==
    IF rs = <<>> THEN 0 ELSE SeverityWeight(rs[Len(rs)].mqmSeverity)

mqmWeights(rs) == SumWeights(rs)

\* Math.round(n / d) for d > 0: halves round up
RoundDiv(n, d) == (2 * n + d) \div (2 * d)

\* a token count that drops the fraction instead of rounding it
tokenCountFloor(words) == (words * TokenFactorPercent) \div 100

\* line 116: Math.round(words * TOKEN_FACTOR).  The double product lies
\* within one ulp of the exact one, which is a multiple of 0.05, so it is on
\* the same side of every half as the exact product (and on it when that is
\* a half, which a double represents).
tokenCountOf(words) == RoundDiv(words * TokenFactorPercent, 100)

\* line 117: (tokens / 1000000) * COST_PER_1M_TOKENS, in units of 1e-8 dollar
estimatedCostOf(tokens) == tokens * CostPerMillionCents

\* lines 113-121: what calculateMetrics sets for the pages
metricsOf(pages) ==
    LET words == calculateMetrics(pages)
        tokens == tokenCountOf(words)
    IN [wordCount |-> words, tokenCount |-> tokens, estimatedCost |-> estimatedCostOf(tokens)]

\* Math.max(0, Math.round(100 * (1 - weights / wordCount))); at wordCount 0
\* the quotient is Infinity (weights >= 1 here) and the maximum is 0
qualityScoreOf(weights, words) ==
    IF words = 0 THEN 0 ELSE Max(0, RoundDiv(100 * (words - weights), words))

(***************************************************************************)
(* The voice reading engine (lines 136-192) over window.speechSynthesis.   *)
(***************************************************************************)
handleStartReading ==
    IF IsDefined(editedPages, currentPage) /\ editedPages[currentPage + 1] # <<"">>
    THEN /\ synthSpeaking' = TRUE
         /\ utteranceWords' = Len(NonEmptyTokens(editedPages[currentPage + 1]))
         /\ isReading' = TRUE
         /\ isPaused' = FALSE
         /\ UNCHANGED <<synthPaused, highlightedWordIndex>>
    ELSE UNCHANGED <<voiceVars, synthVars>>

handlePauseReading ==
    IF synthSpeaking /\ ~synthPaused
    THEN /\ synthPaused' = TRUE
         /\ isPaused' = TRUE
         /\ UNCHANGED <<synthSpeaking, utteranceWords, isReading, highlightedWordIndex>>
    ELSE UNCHANGED <<voiceVars, synthVars>>

handleResumeReading ==
    IF synthPaused
    THEN /\ synthPaused' = FALSE
         /\ isPaused' = FALSE
         /\ UNCHANGED <<synthSpeaking, utteranceWords, isReading, highlightedWordIndex>>
    ELSE IF ~isReading THEN handleStartReading
    ELSE UNCHANGED <<voiceVars, synthVars>>

handleStopReading ==
    /\ synthSpeaking' = FALSE
    /\ utteranceWords' = 0
    /\ isReading' = FALSE
    /\ isPaused' = FALSE
    /\ highlightedWordIndex' = NoIndex
    /\ UNCHANGED synthPaused

\* utterance.onboundary: the index of the word being spoken
Boundary(i) ==
    /\ synthSpeaking /\ ~synthPaused
    /\ i \in 0..(utteranceWords - 1)
    /\ highlightedWordIndex' = i
    /\ lastOp' = "other"
    /\ UNCHANGED <<storeVars, headerVars, contentVars, qcVars, modalVars, isReading,
                   isPaused, isLoading, translateCall, synthVars, now>>
    /\ UNCHANGED otherVars

\* utterance.onend, when the engine has spoken the whole text
UtteranceEnd ==
    /\ synthSpeaking /\ ~synthPaused
    /\ synthSpeaking' = FALSE
    /\ utteranceWords' = 0
    /\ isReading' = FALSE
    /\ isPaused' = FALSE
    /\ highlightedWordIndex' = NoIndex
    /\ lastOp' = "other"
    /\ UNCHANGED <<storeVars, headerVars, contentVars, qcVars, modalVars, isLoading,
                   translateCall, synthPaused, now>>
    /\ UNCHANGED otherVars

\* the play / pause button (line 538) and the stop button (line 545)
PlayPauseClick ==
    /\ editedPages # <<>>
    /\ IF isReading /\ ~isPaused THEN handlePauseReading ELSE handleResumeReading
    /\ lastOp' = "other"
    /\ UNCHANGED <<storeVars, headerVars, contentVars, qcVars, modalVars, isLoading,
                   translateCall, now>>
    /\ UNCHANGED otherVars

StopClick ==
    /\ editedPages # <<>>
    /\ handleStopReading
    /\ lastOp' = "other"
    /\ UNCHANGED <<storeVars, headerVars, contentVars, qcVars, modalVars, isLoading,
                   translateCall, now>>
    /\ UNCHANGED otherVars

(***************************************************************************)
(* handleFileUpload (lines 194-230).  The parse awaits come first; the     *)
(* state is written in one batch once the pages are known.                 *)
(***************************************************************************)
\* a handleFileUpload that leaves the previous translation on screen
handleFileUploadKeepingPages(doc) ==
    /\ sourcePages' = doc
    /\ wordCount' = calculateMetrics(doc)
    /\ currentTrackingId' = generateTrackingId(store, Year)
    /\ now' = now + 1
    /\ currentLogId' = now'
    /\ initiateTranslation' = FALSE
    /\ qcStatus' = "Draft"
    /\ lastOp' = "upload"
    /\ UNCHANGED <<storeVars, editedPages, currentPage, isReviewMode, rationales,
                   modalVars, voiceVars, synthVars, isLoading, translateCall>>
    /\ UNCHANGED otherVars

\* lines 218-225, once the file has been parsed into pages
handleFileUpload(doc) ==
    /\ sourcePages' = doc
    /\ wordCount' = calculateMetrics(doc)
    /\ currentTrackingId' = generateTrackingId(store, Year)
    /\ now' = now + 1
    /\ currentLogId' = now'
    /\ initiateTranslation' = FALSE
    /\ editedPages' = <<>>
    /\ qcStatus' = "Draft"
    /\ lastOp' = "upload"
    /\ UNCHANGED <<storeVars, currentPage, isReviewMode, rationales, modalVars,
                   voiceVars, synthVars, isLoading, translateCall>>
    /\ UNCHANGED otherVars

Upload(doc) ==
    /\ now < MaxUploads
    /\ handleFileUpload(doc)

\* a failure that strikes after the pages and the metrics were set
UploadFailAfterPages ==
    /\ \E doc \in Documents :
          /\ sourcePages' = doc
          /\ wordCount' = calculateMetrics(doc)
    /\ lastOp' = "uploadFail"
    /\ UNCHANGED <<storeVars, headerVars, editedPages, currentPage, qcVars, modalVars,
                   voiceVars, synthVars, isLoading, translateCall, now>>
    /\ UNCHANGED otherVars

\* the parse of the file throws (lines 200-216): the catch of lines 226-229
\* alerts, and no setter has run
UploadFail ==
    /\ lastOp' = "uploadFail"
    /\ UNCHANGED <<storeVars, headerVars, contentVars, qcVars, modalVars, voiceVars,
                   synthVars, isLoading, translateCall, now>>
    /\ UNCHANGED otherVars

(***************************************************************************)
(* handleTranslate up to its await (lines 232-237): the closure of the     *)
(* render that called it stays with the call.                              *)
(***************************************************************************)
handleTranslateStart ==
    IF Len(sourcePages) = 0
    THEN UNCHANGED <<isLoading, translateCall>>
    ELSE /\ isLoading' = TRUE
         /\ translateCall' = <<[logId |-> currentLogId,
                                trackingId |-> currentTrackingId,
                                wordCount |-> wordCount,
                                input |-> sourcePages,
                                results |-> <<>>]>>

\* an effect that does not look at the loading flag
autoTranslateWhileLoading(initiate, pages, loading, edited) ==
    initiate /\ Len(pages) > 0 /\ Len(edited) = 0

\* the condition of the auto-translate effect (line 79)
autoTranslate(initiate, pages, loading, edited) ==
    initiate /\ Len(pages) > 0 /\ ~loading /\ Len(edited) = 0

(***************************************************************************)
(* The initiate radio (line 482) and the effect it triggers (lines 78-82). *)
(***************************************************************************)
SetInitiate ==
    /\ ~initiateTranslation
    /\ initiateTranslation' = TRUE
    /\ IF autoTranslate(TRUE, sourcePages, isLoading, editedPages)
       THEN handleTranslateStart
       ELSE UNCHANGED <<isLoading, translateCall>>
    /\ lastOp' = "other"
    /\ UNCHANGED <<storeVars, currentTrackingId, currentLogId, contentVars, qcVars,
                   modalVars, voiceVars, synthVars, now>>
    /\ UNCHANGED otherVars

(***************************************************************************)
(* translateDocument (geminiService.ts lines 76-91): one gateway call per  *)
(* page, the next one issued when the previous response has arrived.       *)
(***************************************************************************)
TranslatePage(r) ==
    /\ translateCall # <<>>
    /\ Len(translateCall[1].results) + 1 < Len(translateCall[1].input)
    /\ translateCall' = <<[translateCall[1] EXCEPT !.results = Append(@, r)]>>
    /\ lastOp' = "other"
    /\ UNCHANGED <<storeVars, headerVars, contentVars, qcVars, modalVars, voiceVars,
                   synthVars, isLoading, now>>
    /\ UNCHANGED otherVars

\* the record handleTranslate persists (lines 242-261)
newLog(call, pages) ==
    [id |-> call.logId,
     trackingId |-> call.trackingId,
     wordCount |-> call.wordCount,
     pageCount |-> Len(pages),
     status |-> "QC Pending",
     workflowTimeCodes |-> <<"START">>,
     rationales |-> <<>>,
     mqmErrorScore |-> Undefined,
     qualityScore |-> Undefined]

\* the last response arrives: handleTranslate resumes (lines 238-263, 268)
TranslateFinish(r) ==
    /\ translateCall # <<>>
    /\ Len(translateCall[1].results) + 1 = Len(translateCall[1].input)
    /\ LET pages == Append(translateCall[1].results, r)
       IN /\ editedPages' = pages
          /\ store' = Append(store, newLog(translateCall[1], pages))
    /\ qcStatus' = "QC Pending"
    /\ isLoading' = FALSE
    /\ translateCall' = <<>>
    /\ lastOp' = "translateFinish"
    /\ UNCHANGED <<headerVars, sourcePages, currentPage, wordCount, isReviewMode,
                   rationales, modalVars, voiceVars, synthVars, now>>
    /\ UNCHANGED otherVars

\* a gateway call rejects: the catch and finally of lines 264-270
\* lastOp tells a failure of the first call from one after some pages came back
failureOp == IF translateCall[1].results = <<>> THEN "translateFail" ELSE "translateFailLate"

TranslateFailKeepFlag ==
    /\ translateCall # <<>>
    /\ isLoading' = FALSE
    /\ translateCall' = <<>>
    /\ lastOp' = failureOp
    /\ UNCHANGED <<storeVars, headerVars, contentVars, qcVars, modalVars, voiceVars,
                   synthVars, now>>
    /\ UNCHANGED otherVars

TranslateFail ==
    /\ translateCall # <<>>
    /\ initiateTranslation' = FALSE
    /\ isLoading' = FALSE
    /\ translateCall' = <<>>
    /\ lastOp' = failureOp
    /\ UNCHANGED <<storeVars, currentTrackingId, currentLogId, contentVars, qcVars,
                   modalVars, voiceVars, synthVars, now>>
    /\ UNCHANGED otherVars

(***************************************************************************)
(* The review toggle (lines 563-569) and the page buttons (518, 522).      *)
(***************************************************************************)
ToggleReview ==
    /\ Len(editedPages) # 0
    /\ isReviewMode' = ~isReviewMode
    /\ lastOp' = "other"
    /\ UNCHANGED <<storeVars, headerVars, contentVars, qcStatus, rationales, modalVars,
                   voiceVars, synthVars, isLoading, translateCall, now>>
    /\ UNCHANGED otherVars

PrevPage ==
    /\ currentPage' = Max(0, currentPage - 1)
    /\ lastOp' = "other"
    /\ UNCHANGED <<storeVars, headerVars, sourcePages, editedPages, wordCount, qcVars,
                   modalVars, voiceVars, synthVars, isLoading, translateCall, now>>
    /\ UNCHANGED otherVars

NextPage ==
    /\ currentPage' = Min(Len(sourcePages) - 1, currentPage + 1)
    /\ lastOp' = "other"
    /\ UNCHANGED <<storeVars, headerVars, sourcePages, editedPages, wordCount, qcVars,
                   modalVars, voiceVars, synthVars, isLoading, translateCall, now>>
    /\ UNCHANGED otherVars

(***************************************************************************)
(* Finalize Verification (lines 597-605).                                  *)
(***************************************************************************)
finalizeShownInReview == isReviewMode

finalizeShown ==
    isReviewMode /\ qcStatus # "QC Finalized" /\ qcStatus # "Downloaded"

Finalize ==
    /\ finalizeShown
    /\ qcStatus' = "QC Finalized"
    /\ store' = updatePersistentStatus(store, currentLogId, "QC Finalized")
    /\ isReviewMode' = FALSE
    /\ handleStopReading
    /\ lastOp' = "finalize"
    /\ UNCHANGED <<headerVars, contentVars, rationales, modalVars, isLoading,
                   translateCall, now>>
    /\ UNCHANGED otherVars

(***************************************************************************)
(* The download buttons (lines 497-508) and their handlers (335-396).      *)
(***************************************************************************)
downloadShown == qcStatus = "QC Finalized" \/ qcStatus = "Downloaded"

\* lines 363-364 and 394-395; lastOp tells a repeated download from the first
markDownloaded ==
    /\ qcStatus' = "Downloaded"
    /\ store' = updatePersistentStatus(store, currentLogId, "Downloaded")
    /\ lastOp' = IF qcStatus = "Downloaded" THEN "downloadAgain" ELSE "download"

handleDownloadWord ==
    /\ downloadShown
    /\ markDownloaded
    /\ UNCHANGED <<headerVars, contentVars, isReviewMode, rationales, modalVars,
                   voiceVars, synthVars, isLoading, translateCall, now>>
    /\ UNCHANGED otherVars

\* window.open returns null when the popup is blocked (line 369)
handleDownloadPDF(opened) ==
    /\ downloadShown
    /\ IF opened
       THEN markDownloaded
       ELSE UNCHANGED <<store, qcStatus>> /\ lastOp' = "downloadBlocked"
    /\ UNCHANGED <<headerVars, contentVars, isReviewMode, rationales, modalVars,
                   voiceVars, synthVars, isLoading, translateCall, now>>
    /\ UNCHANGED otherVars

(***************************************************************************)
(* The intervention dialog: handleWordClick (lines 273-276, called from    *)
(* the word spans of lines 581-592), its close button (617), its inputs    *)
(* (633, 646, 662) and confirmIntervention (285-333).                      *)
(***************************************************************************)
\* the indices of the word spans the view renders (lines 574, 581)
renderedWordIndices ==
    IF ~isLoading /\ IsDefined(editedPages, currentPage)
    THEN 0..(Len(TrimSplit(editedPages[currentPage + 1])) - 1)
    ELSE {}

\* lines 274-276: the word span clicked opens the dialog on its word
handleWordClick(i) ==
    /\ isReviewMode
    /\ i \in renderedWordIndices
    /\ selectedWordData' =
          <<[word |-> TrimSplit(editedPages[currentPage + 1])[i + 1], index |-> i]>>
    /\ isWordModalOpen' = TRUE
    /\ handlePauseReading
    /\ lastOp' = "other"
    /\ UNCHANGED <<storeVars, headerVars, contentVars, qcVars, isLoading, translateCall, now>>

\* the click as the session sees it: the suggestion request of lines 277-282
\* writes alternatives and isFetchingAlts alone, and ConfirmIntervention
\* takes the alternative chosen as its input
WordClick(i) ==
    /\ handleWordClick(i)
    /\ UNCHANGED otherVars

(***************************************************************************)
(* The suggestion request of the dialog (lines 277-282 and                 *)
(* getAlternateSuggestions, geminiService.ts lines 57-71).  A suggestion   *)
(* carries the word it is an alternative of (of), which the code does not  *)
(* see.  Requests resolve in any order.                                    *)
(***************************************************************************)
\* lines 273-279: the click with its request sent
WordClickFetch(i) ==
    /\ Len(altCalls) < MaxAltCalls
    /\ handleWordClick(i)
    /\ isFetchingAlts' = TRUE
    /\ altCalls' = Append(altCalls,
                          [word |-> TrimSplit(editedPages[currentPage + 1])[i + 1]])
    /\ UNCHANGED <<alternatives, qcSeconds, arg, out>>

\* s without its k-th element
RemoveAt(s, k) == SubSeq(s, 1, k - 1) \o SubSeq(s, k + 1, Len(s))

\* line 70: the suggestions parsed from the response, [] when there are none
suggestionsFor(word, some) == IF some THEN <<[of |-> word]>> ELSE <<>>

\* the k-th request resolves (lines 279-280 and 282)
AltRespond(k, some) ==
    /\ k \in 1..Len(altCalls)
    /\ alternatives' = suggestionsFor(altCalls[k].word, some)
    /\ isFetchingAlts' = FALSE
    /\ altCalls' = RemoveAt(altCalls, k)
    /\ lastOp' = "other"
    /\ UNCHANGED <<storeVars, headerVars, contentVars, qcVars, modalVars, voiceVars,
                   synthVars, isLoading, translateCall, now, qcSeconds, arg, out>>

\* the k-th request rejects (lines 281-282)
AltReject(k) ==
    /\ k \in 1..Len(altCalls)
    /\ isFetchingAlts' = FALSE
    /\ altCalls' = RemoveAt(altCalls, k)
    /\ lastOp' = "other"
    /\ UNCHANGED <<storeVars, headerVars, contentVars, qcVars, modalVars, voiceVars,
                   synthVars, isLoading, translateCall, now, alternatives, qcSeconds,
                   arg, out>>

CloseModal ==
    /\ isWordModalOpen
    /\ isWordModalOpen' = FALSE
    /\ handleResumeReading
    /\ lastOp' = "other"
    /\ UNCHANGED <<storeVars, headerVars, contentVars, qcVars, selectedWordData, isLoading,
                   translateCall, now>>
    /\ UNCHANGED otherVars

\* the guard of line 286; the dialog's inputs (the chosen alternative, the
\* rationale text and the severity, lines 57-60) are the action's parameters
interventionIncompleteAltOnly(alt, text) == selectedWordData = <<>> \/ alt = <<>>

interventionIncomplete(alt, text) ==
    selectedWordData = <<>> \/ alt = <<>> \/ text = ""

\* lines 309-327: the log of the session gets the rationale and its scores
persistIntervention(logs, id, rationale) ==
    LET idx == findIndex(logs, id)
    IN IF idx = 0 THEN logs
       ELSE LET all == Append(logs[idx].rationales, rationale)
                weights == mqmWeights(all)
            IN [logs EXCEPT ![idx] =
                    [@ EXCEPT !.rationales = all,
                              !.mqmErrorScore = weights,
                              !.qualityScore = qualityScoreOf(weights, logs[idx].wordCount)]]

ConfirmIntervention(alt, text, sev) ==
    /\ isWordModalOpen
    /\ IF interventionIncomplete(alt, text)
       THEN /\ lastOp' = "confirmRejected"
            /\ UNCHANGED <<storeVars, editedPages, rationales, modalVars, voiceVars,
                           synthVars>>
       ELSE IF ~IsDefined(editedPages, currentPage)
       THEN \* editedPages[currentPage] is undefined: line 288 throws a TypeError
            /\ lastOp' = "confirmThrows"
            /\ UNCHANGED <<storeVars, editedPages, rationales, modalVars, voiceVars,
                           synthVars>>
       ELSE /\ Len(rationales) < MaxRationales
            /\ LET index == selectedWordData[1].index
                   words == editedPages[currentPage + 1]
                   rationale == [originalText |-> selectedWordData[1].word,
                                 updatedText |-> alt,
                                 rationale |-> text,
                                 pageIndex |-> currentPage,
                                 wordIndex |-> index,
                                 mqmSeverity |-> sev]
               IN /\ editedPages' = [editedPages EXCEPT ![currentPage + 1] =
                                        SplitJoin(SetWord(words, index, alt))]
                  /\ rationales' = Append(rationales, rationale)
                  /\ store' = persistIntervention(store, currentLogId, rationale)
            /\ isWordModalOpen' = FALSE
            /\ handleResumeReading
            /\ lastOp' = "confirm"
            /\ UNCHANGED selectedWordData
    /\ UNCHANGED <<headerVars, sourcePages, currentPage, wordCount, isReviewMode,
                   qcStatus, isLoading, translateCall, now>>
    /\ UNCHANGED otherVars

\* the handlers of the session, of the store and of the intervention dialog
Next ==
    \/ \E doc \in Documents : Upload(doc)
    \/ UploadFail
    \/ SetInitiate
    \/ \E r \in Responses : TranslatePage(r)
    \/ \E r \in Responses : TranslateFinish(r)
    \/ TranslateFail
    \/ ToggleReview
    \/ PrevPage
    \/ NextPage
    \/ Finalize
    \/ handleDownloadWord
    \/ \E opened \in BOOLEAN : handleDownloadPDF(opened)
    \/ \E i \in renderedWordIndices : WordClick(i)
    \/ CloseModal
    \/ \E alt \in Alts \cup {<<>>}, text \in RationaleTexts, sev \in Severities :
            ConfirmIntervention(alt, text, sev)

\* the same with the voice controls and the events of the speech engine
NextVoice ==
    \/ Next
    \/ PlayPauseClick
    \/ StopClick
    \/ \E i \in 0..(utteranceWords - 1) : Boundary(i)
    \/ UtteranceEnd

Spec == Init /\ [][Next]_vars

(***************************************************************************)
(* extractJson (geminiService.ts lines 6-28).  A text is a sequence of     *)
(* symbols: the brackets and braces, the comma, "1" a digit, "K" a key     *)
(* with its colon ("k":), "F" a fence of three backticks and "J" the word  *)
(* json.  No symbol is white space, so trim() has nothing to remove.       *)
(***************************************************************************)
JsonSymbols == {"[", "]", "{", "}", ",", "1", "K", "F", "J"}

\* the index after the digits that start at i
RECURSIVE skipDigits(_, _)
skipDigits(str, i) ==
    IF i <= Len(str) /\ str[i] = "1" THEN skipDigits(str, i + 1) ELSE i

\* JSON.parse as a recursive descent: the index after the value (the
\* elements, the members) that starts at i, or 0 when there is none
RECURSIVE parseValue(_, _), parseElements(_, _), parseMembers(_, _)
parseValue(str, i) ==
    IF i > Len(str) THEN 0
    ELSE IF str[i] = "1" THEN skipDigits(str, i)
    ELSE IF str[i] = "["
         THEN IF i + 1 <= Len(str) /\ str[i + 1] = "]" THEN i + 2
              ELSE parseElements(str, i + 1)
    ELSE IF str[i] = "{"
         THEN IF i + 1 <= Len(str) /\ str[i + 1] = "}" THEN i + 2
              ELSE parseMembers(str, i + 1)
    ELSE 0

parseElements(str, i) ==
    LET j == parseValue(str, i)
    IN IF j = 0 \/ j > Len(str) THEN 0
       ELSE IF str[j] = "]" THEN j + 1
       ELSE IF str[j] = "," THEN parseElements(str, j + 1)
       ELSE 0

parseMembers(str, i) ==
    IF i > Len(str) \/ str[i] # "K" THEN 0
    ELSE LET j == parseValue(str, i + 1)
         IN IF j = 0 \/ j > Len(str) THEN 0
            ELSE IF str[j] = "}" THEN j + 1
            ELSE IF str[j] = "," THEN parseMembers(str, j + 1)
            ELSE 0

\* JSON.parse(str) returns (does not throw)
parses(str) == parseValue(str, 1) = Len(str) + 1

\* the value JSON.parse returns for a text that parses, and null
JsonValue(str) == [json |-> str]
Null == [null |-> TRUE]

\* indexOf and lastIndexOf, counted from 0, -1 when the symbol is absent
indexOf(str, ch) ==
    IF \E i \in 1..Len(str) : str[i] = ch
    THEN (CHOOSE i \in 1..Len(str) :
             str[i] = ch /\ \A j \in 1..(i - 1) : str[j] # ch) - 1
    ELSE -1

lastIndexOf(str, ch) ==
    IF \E i \in 1..Len(str) : str[i] = ch
    THEN (CHOOSE i \in 1..Len(str) :
             str[i] = ch /\ \A j \in (i + 1)..Len(str) : str[j] # ch) - 1
    ELSE -1

\* substring(from, to) for 0 <= from <= to <= length
substring(str, from, to) == SubSeq(str, from + 1, to)

\* line 9: the three replace calls, each anchored at an end of the text
stripFences(text) ==
    LET a == IF startsWith(text, <<"F", "J">>) THEN SubSeq(text, 3, Len(text)) ELSE text
        b == IF startsWith(a, <<"F">>) THEN Tail(a) ELSE a
    IN IF b # <<>> /\ b[Len(b)] = "F" THEN SubSeq(b, 1, Len(b) - 1) ELSE b

\* an extractJson that tries the braces before the brackets
extractJsonBracesFirst(text) ==
    IF text = <<>> THEN Null
    ELSE LET cleanText == stripFences(text)
             firstBracket == indexOf(cleanText, "[")
             lastBracket == lastIndexOf(cleanText, "]")
             arrayCandidate == substring(cleanText, firstBracket, lastBracket + 1)
             firstCurly == indexOf(cleanText, "{")
             lastCurly == lastIndexOf(cleanText, "}")
             objectCandidate == substring(cleanText, firstCurly, lastCurly + 1)
         IN IF /\ firstCurly # -1 /\ lastCurly # -1 /\ lastCurly > firstCurly
               /\ parses(objectCandidate)
            THEN JsonValue(objectCandidate)
            ELSE IF /\ firstBracket # -1 /\ lastBracket # -1 /\ lastBracket > firstBracket
                    /\ parses(arrayCandidate)
            THEN JsonValue(arrayCandidate)
            ELSE IF parses(cleanText) THEN JsonValue(cleanText)
            ELSE Null

extractJson(text) ==
    IF text = <<>> THEN Null
    ELSE LET cleanText == stripFences(text)
             firstBracket == indexOf(cleanText, "[")
             lastBracket == lastIndexOf(cleanText, "]")
             arrayCandidate == substring(cleanText, firstBracket, lastBracket + 1)
             firstCurly == indexOf(cleanText, "{")
             lastCurly == lastIndexOf(cleanText, "}")
             objectCandidate == substring(cleanText, firstCurly, lastCurly + 1)
         IN IF /\ firstBracket # -1 /\ lastBracket # -1 /\ lastBracket > firstBracket
               /\ parses(arrayCandidate)
            THEN JsonValue(arrayCandidate)
            ELSE IF /\ firstCurly # -1 /\ lastCurly # -1 /\ lastCurly > firstCurly
                    /\ parses(objectCandidate)
            THEN JsonValue(objectCandidate)
            ELSE IF parses(cleanText) THEN JsonValue(cleanText)
            ELSE Null

(***************************************************************************)
(* The QC timer (lines 92-98): an interval runs exactly while the          *)
(* condition of line 94 holds, and each of its ticks adds a second.  Tick  *)
(* is a second of wall time going by, with or without an interval.         *)
(***************************************************************************)
\* a timer that keeps running while the intervention dialog is open
qcTimerRunsInDialog == isReviewMode /\ qcStatus = "QC Pending" /\ ~isPaused

qcTimerRuns ==
    isReviewMode /\ qcStatus = "QC Pending" /\ ~isPaused /\ ~isWordModalOpen

Tick ==
    /\ qcSeconds < MaxQcSeconds
    /\ qcSeconds' = IF qcTimerRuns THEN qcSeconds + 1 ELSE qcSeconds
    /\ lastOp' = "tick"
    /\ UNCHANGED <<storeVars, headerVars, contentVars, qcVars, modalVars, voiceVars,
                   synthVars, isLoading, translateCall, now, fetchVars, arg, out>>

\* the session with review, dialog and voice controls, and the clock
NextTimer ==
    \/ \E doc \in Documents : Upload(doc)
    \/ SetInitiate
    \/ \E r \in Responses : TranslatePage(r)
    \/ \E r \in Responses : TranslateFinish(r)
    \/ TranslateFail
    \/ ToggleReview
    \/ Finalize
    \/ \E i \in renderedWordIndices : WordClick(i)
    \/ CloseModal
    \/ PlayPauseClick
    \/ StopClick
    \/ UtteranceEnd
    \/ Tick

SpecTimer == Init /\ [][NextTimer]_vars

(***************************************************************************)
(* Uploads and translations alone, over more documents.                    *)
(***************************************************************************)
SessionUpload(doc) ==
    /\ now < MaxSessionUploads
    /\ handleFileUpload(doc)

NextSession ==
    \/ \E doc \in Documents : SessionUpload(doc)
    \/ SetInitiate
    \/ \E r \in Responses : TranslatePage(r)
    \/ \E r \in Responses : TranslateFinish(r)
    \/ TranslateFail

SpecSession == Init /\ [][NextSession]_vars

(***************************************************************************)
(* The intervention dialog with its suggestion requests, over translated   *)
(* pages of two words.                                                     *)
(***************************************************************************)
DialogResponses == {<<"a", "b">>}

NextDialog ==
    \/ \E doc \in Documents : Upload(doc)
    \/ SetInitiate
    \/ \E r \in DialogResponses : TranslatePage(r)
    \/ \E r \in DialogResponses : TranslateFinish(r)
    \/ ToggleReview
    \/ \E i \in renderedWordIndices : WordClickFetch(i)
    \/ CloseModal
    \/ \E k \in 1..Len(altCalls), some \in BOOLEAN : AltRespond(k, some)
    \/ \E k \in 1..Len(altCalls) : AltReject(k)

SpecDialog == Init /\ [][NextDialog]_vars

(***************************************************************************)
(* The pure functions, each applied once to an argument drawn at the       *)
(* start: arg is the call, out the sequence holding its result.            *)
(***************************************************************************)
SeqsUpTo(S, n) == UNION {[1..k -> S] : k \in 0..n}

\* stored logs of last year and of this year, in any order
TrackingIdCalls ==
    [fn : {"generateTrackingId"},
     logs : SeqsUpTo({<<Year - 1, 1>>, <<Year - 1, 2>>, <<Year, 1>>, <<Year, 2>>}, MaxLogs),
     year : {Year - 1, Year}]

ApplyGenerateTrackingId ==
    /\ arg.fn = "generateTrackingId"
    /\ out = <<>>
    /\ out' = <<generateTrackingIdString(
                   [i \in 1..Len(arg.logs) |-> trackingIdString(arg.logs[i])], arg.year)>>
    /\ UNCHANGED <<componentVars, arg>>

\* documents of up to two pages, a page given by its number of words
MetricsCalls ==
    [fn : {"calculateMetrics"}, pages : SeqsUpTo(0..MaxPageWords, 2)]

\* out collects the results of successive calls on the same pages
ApplyCalculateMetrics ==
    /\ arg.fn = "calculateMetrics"
    /\ Len(out) < MaxCalls
    /\ out' = Append(out, metricsOf(arg.pages))
    /\ UNCHANGED <<componentVars, arg>>

ExtractJsonCalls == [fn : {"extractJson"}, text : SeqsUpTo(JsonSymbols, MaxTextLen)]

ApplyExtractJson ==
    /\ arg.fn = "extractJson"
    /\ out = <<>>
    /\ out' = <<extractJson(arg.text)>>
    /\ UNCHANGED <<componentVars, arg>>

(***************************************************************************)
(* The words of a page, character by character: the text the review view   *)
(* renders (line 581) and the text confirmIntervention rewrites (lines     *)
(* 288-293).  A text is the sequence of its characters, " " being any      *)
(* white space; a word is a text, and <<>> is the empty string.            *)
(***************************************************************************)
TextChars == {" ", "a", "b"}

\* String.prototype.trim
RECURSIVE trimStart(_), trimEnd(_)
trimStart(str) == IF str # <<>> /\ str[1] = " " THEN trimStart(Tail(str)) ELSE str

trimEnd(str) ==
    IF str # <<>> /\ str[Len(str)] = " "
    THEN trimEnd(SubSeq(str, 1, Len(str) - 1))
    ELSE str

trim(str) == trimEnd(trimStart(str))

\* str.split(/\s+/): cur is the word being read, acc the words read so far
RECURSIVE splitFrom(_, _, _)
splitFrom(str, cur, acc) ==
    IF str = <<>> THEN Append(acc, cur)
    ELSE IF str[1] = " " THEN splitFrom(trimStart(str), <<>>, Append(acc, cur))
    ELSE splitFrom(Tail(str), Append(cur, str[1]), acc)

split(str) == splitFrom(str, <<>>, <<>>)

\* words.join(' ')
RECURSIVE join(_)
join(words) ==
    IF words = <<>> THEN <<>>
    ELSE IF Len(words) = 1 THEN words[1]
    ELSE words[1] \o <<" ">> \o join(Tail(words))

\* line 289 on an array of strings: the holes an index past the end leaves
\* are joined as empty strings
assignWord(words, index, alt) ==
    LET n == Max(Len(words), index + 1)
    IN [j \in 1..n |-> IF j = index + 1 THEN alt
                       ELSE IF j <= Len(words) THEN words[j] ELSE <<>>]

\* lines 288-293: the pages confirmIntervention hands to setEditedPages
newPages(pages, page, index, alt) ==
    [pages EXCEPT ![page + 1] = join(assignWord(split(pages[page + 1]), index, alt))]

\* the page texts whose words the view renders and confirmIntervention splits
WordsCalls == [fn : {"words"}, text : SeqsUpTo(TextChars, MaxTextChars)]

\* line 581 and line 288 on the same page text
ApplyWords ==
    /\ arg.fn = "words"
    /\ out = <<>>
    /\ out' = <<[shown |-> split(trim(arg.text)), replaced |-> split(arg.text)]>>
    /\ UNCHANGED <<componentVars, arg>>

\* the alternatives the reviewer picks from: a word and a two-word phrase
AltTexts == {<<"b">>, <<"a", " ", "b">>}
OtherPage == <<"b", " ", "a">>

\* the page at hand alone, or with another page before it, after it, or both
InterventionCalls ==
    [fn : {"confirmIntervention"},
     before : {<<>>, <<OtherPage>>},
     text : SeqsUpTo(TextChars, MaxTextChars),
     after : {<<>>, <<OtherPage>>},
     index : 0..MaxWordIndex,
     alt : AltTexts]

ApplyConfirmIntervention ==
    /\ arg.fn = "confirmIntervention"
    /\ out = <<>>
    /\ out' = <<newPages(arg.before \o <<arg.text>> \o arg.after, Len(arg.before),
                         arg.index, arg.alt)>>
    /\ UNCHANGED <<componentVars, arg>>

FunctionCalls ==
    TrackingIdCalls \cup MetricsCalls \cup ExtractJsonCalls \cup WordsCalls
        \cup InterventionCalls

InitFunctions ==
    /\ Mounted
    /\ arg \in FunctionCalls
    /\ out = <<>>

NextFunctions ==
    \/ ApplyGenerateTrackingId
    \/ ApplyCalculateMetrics
    \/ ApplyExtractJson
    \/ ApplyWords
    \/ ApplyConfirmIntervention

SpecFunctions == InitFunctions /\ [][NextFunctions]_vars

(***************************************************************************)
(* translateDocument (geminiService.ts lines 76-91) call by call.  The     *)
(* call at hand is arg; translateCall holds the frame of the function:     *)
(* input, results, the loop index i, the page indices whose gateway call   *)
(* awaits its response (pending) and the page indices called so far        *)
(* (calls).  A response carries the page text it answers (of), which the   *)
(* code does not see, and the text the gateway returned, "" standing for   *)
(* an absent one (response.text || '').                                    *)
(***************************************************************************)
PageTexts == {"p", "q"}
ResponseTexts == {"t", ""}

\* content is an array of pages or a single string
TranslateCalls ==
    [fn : {"translateDocument"}, isArray : {TRUE}, content : SeqsUpTo(PageTexts, MaxPages)]
    \cup [fn : {"translateDocument"}, isArray : {FALSE}, content : {<<t>> : t \in PageTexts}]

frameVars == <<store, currentTrackingId, currentLogId, initiateTranslation,
               sourcePages, editedPages, currentPage, wordCount,
               isReviewMode, qcStatus, rationales,
               isWordModalOpen, selectedWordData,
               isReading, isPaused, highlightedWordIndex, isLoading,
               synthSpeaking, synthPaused, utteranceWords, now, lastOp, qcSeconds,
               alternatives, isFetchingAlts, altCalls>>

\* lines 77-80
translateDocumentEnter ==
    /\ arg.fn = "translateDocument"
    /\ translateCall = <<>> /\ out = <<>>
    /\ translateCall' = <<[input |-> arg.content, results |-> <<>>, i |-> 0,
                            pending |-> {}, calls |-> <<>>]>>
    /\ UNCHANGED <<frameVars, arg, out>>

\* a loop that sends the next page without awaiting the previous response
GatewayCallNoAwait ==
    /\ translateCall # <<>> /\ out = <<>>
    /\ LET c == translateCall[1]
           page == Len(c.calls)
       IN /\ page < Len(c.input)
          /\ translateCall' = <<[c EXCEPT !.pending = @ \cup {page},
                                           !.calls = Append(@, page)]>>
    /\ UNCHANGED <<frameVars, arg, out>>

\* lines 82-84: the loop sends input[i] and awaits
GatewayCall ==
    /\ translateCall # <<>> /\ out = <<>>
    /\ LET c == translateCall[1]
       IN /\ c.pending = {}
          /\ c.i < Len(c.input)
          /\ translateCall' = <<[c EXCEPT !.pending = {c.i},
                                           !.calls = Append(@, c.i)]>>
    /\ UNCHANGED <<frameVars, arg, out>>

\* lines 84-88: a response arrives, its text is pushed, the loop goes on
GatewayRespond(text) ==
    /\ translateCall # <<>> /\ out = <<>>
    /\ LET c == translateCall[1]
       IN \E page \in c.pending :
             translateCall' =
                 <<[c EXCEPT !.pending = @ \ {page},
                             !.results = Append(@, [of |-> c.input[page + 1],
                                                    text |-> text]),
                             !.i = @ + 1]>>
    /\ UNCHANGED <<frameVars, arg, out>>

\* the awaited call rejects: translateDocument throws
GatewayReject ==
    /\ translateCall # <<>> /\ out = <<>>
    /\ translateCall[1].pending # {}
    /\ out' = <<[throws |-> TRUE]>>
    /\ UNCHANGED <<frameVars, arg, translateCall>>

\* line 90
translateDocumentReturn ==
    /\ translateCall # <<>> /\ out = <<>>
    /\ LET c == translateCall[1]
       IN /\ c.pending = {}
          /\ c.i >= Len(c.input)
          /\ out' = <<[value |-> IF arg.isArray THEN c.results ELSE c.results[1]]>>
    /\ UNCHANGED <<frameVars, arg, translateCall>>

InitGateway ==
    /\ Mounted
    /\ arg \in TranslateCalls
    /\ out = <<>>

NextGateway ==
    \/ translateDocumentEnter
    \/ GatewayCall
    \/ \E text \in ResponseTexts : GatewayRespond(text)
    \/ GatewayReject
    \/ translateDocumentReturn

SpecGateway == InitGateway /\ [][NextGateway]_vars

(***************************************************************************)
(* Properties.                                                             *)
(***************************************************************************)
Statuses == {"Draft", "QC Pending", "QC Finalized", "Downloaded"}

\* the logs of the store that carry the id of the current session
sessionLogs == {i \in 1..Len(store) : store[i].id = currentLogId}

\* the effect of lines 78-82 has nothing to start in any state a handler
\* other than the initiate radio leaves behind
EffectQuiescent ==
    ~autoTranslate(initiateTranslation, sourcePages, isLoading, editedPages)

TypeOK ==
    /\ qcStatus \in Statuses
    /\ \A i \in 1..Len(store) : store[i].status \in Statuses
    /\ isLoading = (translateCall # <<>>)
    /\ isWordModalOpen => selectedWordData # <<>>
    /\ currentLogId = now

\* C1: Finalize is a no-op unless the session is in review mode with status
\* QC Pending; in particular, finalizing a Draft session changes neither the
\* session status nor the store.
C1_FinalizeOnlyFromPending ==
    [][lastOp' = "finalize" =>
          \/ isReviewMode /\ qcStatus = "QC Pending"
          \/ qcStatus' = qcStatus /\ store' = store]_vars

\* C2: the stored status of every persisted log only moves forward, one
\* stage at a time, along QC Pending -> QC Finalized -> Downloaded: it never
\* returns to QC Pending and never changes once Downloaded.
C2_PersistedStatusForward ==
    [][\A i \in 1..Len(store) :
          /\ i <= Len(store')
          /\ store'[i].id = store[i].id
          /\ store[i].status \in {"QC Pending", "QC Finalized", "Downloaded"}
          /\ Rank(store'[i].status) >= Rank(store[i].status)
          /\ Rank(store'[i].status) <= Rank(store[i].status) + 1]_vars

C2_Witness ==
    \E i, j \in 1..Len(store) :
        /\ store[i].status = "Downloaded"
        /\ store[j].status = "QC Finalized"
        /\ lastOp = "finalize"

\* C3: between two uploads the session status never moves backward in the
\* order Draft < QC Pending < QC Finalized < Downloaded.
C3_SessionStatusForward ==
    [][lastOp' # "upload" => Rank(qcStatus') >= Rank(qcStatus)]_vars

\* the severity weights and the score as the specification states them
ClaimedWeight(sev) ==
    CASE sev = "Minor" -> 1
      [] sev = "Major" -> 5
      [] sev = "Critical" -> 10

RECURSIVE ClaimedErrorScore(_)
ClaimedErrorScore(rs) ==
    IF rs = <<>> THEN 0
    ELSE ClaimedWeight(Head(rs).mqmSeverity) + ClaimedErrorScore(Tail(rs))

\* max(0, round(100 * (1 - errors / words))) for words > 0
ClaimedQualityScore(errors, words) ==
    LET twice == (200 * (words - errors)) \div words     \* floor of twice the value
        rounded == (twice + 1) \div 2
    IN IF rounded < 0 THEN 0 ELSE rounded

\* C4: every persisted log carries the quality score of its rationales,
\* max(0, round(100 * (1 - mqmErrorScore / wordCount))), in every state of
\* the store.
C4_QualityScoreOfEveryLog ==
    \A i \in 1..Len(store) :
        store[i].wordCount > 0 =>
            store[i].qualityScore =
                ClaimedQualityScore(ClaimedErrorScore(store[i].rationales),
                                    store[i].wordCount)

\* C5: the mqmErrorScore of a persisted log with recorded interventions is
\* the sum of the severity weights (Minor 1, Major 5, Critical 10) of all the
\* rationales on that log.
C5_ErrorScoreIsSumOfAll ==
    \A i \in 1..Len(store) :
        store[i].rationales # <<>> =>
            store[i].mqmErrorScore = ClaimedErrorScore(store[i].rationales)

C5_Witness ==
    /\ lastOp = "confirm"
    /\ \E i \in sessionLogs :
          /\ Len(store[i].rationales) = 2
          /\ store[i].rationales[1].mqmSeverity = "Critical"
          /\ store[i].rationales[2].mqmSeverity = "Minor"
          /\ store[i].mqmErrorScore = 11

\* C6: a confirm with an empty replacement or an empty rationale text is a
\* no-op: the store, the in-memory rationales, the edited pages and the open
\* dialog stay as they are; whatever a confirm records has both texts.
C6_EmptyConfirmIsNoOp ==
    [][/\ lastOp' = "confirmRejected" =>
             UNCHANGED <<store, rationales, editedPages, isWordModalOpen>>
       /\ lastOp' = "confirm" =>
             /\ rationales'[Len(rationales')].updatedText # <<>>
             /\ rationales'[Len(rationales')].rationale # ""
             /\ \A i \in 1..Len(store') : \A k \in 1..Len(store'[i].rationales) :
                   /\ store'[i].rationales[k].updatedText # <<>>
                   /\ store'[i].rationales[k].rationale # ""]_vars

C6_Witness ==
    /\ lastOp = "confirmRejected"
    /\ isWordModalOpen
    /\ \E i \in sessionLogs : Len(store[i].rationales) = 1

\* C7: a successful translate sets the session to QC Pending and appends
\* exactly one log, with the id and tracking id of the current session,
\* status QC Pending, no rationales and one START time code; the logs stored
\* before are unchanged.
C7_TranslateAppendsSessionLog ==
    [][lastOp' = "translateFinish" =>
          /\ qcStatus' = "QC Pending"
          /\ Len(store') = Len(store) + 1
          /\ SubSeq(store', 1, Len(store)) = store
          /\ LET log == store'[Len(store')]
             IN /\ log.id = currentLogId'
                /\ log.trackingId = currentTrackingId'
                /\ log.status = "QC Pending"
                /\ log.rationales = <<>>
                /\ log.workflowTimeCodes = <<"START">>]_vars

\* C8: a failed gateway call, at whichever page, leaves the session status
\* where it was (a Draft session stays Draft), editedPages empty and the
\* store untouched, clears the loading flag and the initiate flag; and a
\* translate call only ever starts in the step that sets the initiate flag.
C8_FailureLeavesDraft ==
    [][/\ lastOp' \in {"translateFail", "translateFailLate"} =>
             /\ qcStatus' = qcStatus
             /\ editedPages = <<>> /\ editedPages' = <<>>
             /\ store' = store
             /\ ~isLoading' /\ translateCall' = <<>>
             /\ ~initiateTranslation'
       /\ (translateCall = <<>> /\ translateCall' # <<>>) =>
             (~initiateTranslation /\ initiateTranslation')]_vars

C8_Witness ==
    /\ lastOp = "translateFailLate"
    /\ qcStatus = "Draft"
    /\ editedPages = <<>>
    /\ store = <<>>
    /\ ~isLoading /\ ~initiateTranslation

\* C9: a download happens only in status QC Finalized or Downloaded; after
\* it the session status is Downloaded and the store holds the session's
\* log with status Downloaded; a repeated download leaves both at
\* Downloaded.
C9_DownloadIsTerminal ==
    [][/\ lastOp' \in {"download", "downloadAgain", "downloadBlocked"} =>
             qcStatus \in {"QC Finalized", "Downloaded"}
       /\ lastOp' \in {"download", "downloadAgain"} =>
             /\ qcStatus' = "Downloaded"
             /\ \E i \in 1..Len(store') : store'[i].id = currentLogId
             /\ \A i \in 1..Len(store') :
                   store'[i].id = currentLogId => store'[i].status = "Downloaded"
       /\ lastOp' = "downloadAgain" =>
             /\ qcStatus = "Downloaded"
             /\ store' = store]_vars

\* C10: no step removes a log; a step changes at most one stored log, the
\* one with the id of the current session, or else appends one log; the
\* logs of documents uploaded earlier are never changed again.
C10_StoreWritesAreLocal ==
    [][/\ Len(store') \in {Len(store), Len(store) + 1}
       /\ \A i \in 1..Len(store) :
             /\ store'[i].id = store[i].id
             /\ store'[i] # store[i] =>
                   /\ store[i].id = currentLogId
                   /\ Len(store') = Len(store)
                   /\ \A j \in 1..Len(store) : j # i => store'[j] = store[j]
             /\ store[i].id < currentLogId => store'[i] = store[i]]_vars

C10_Witness ==
    /\ Len(store) = 2
    /\ store[1].id # currentLogId
    /\ store[1].rationales # <<>>
    /\ store[2].id = currentLogId
    /\ store[2].rationales # <<>>
    /\ lastOp = "confirm"

\* C11: a successful upload leaves the store as it is and resets the
\* session: status Draft, editedPages empty, initiate flag cleared, a log
\* id that differs from the previous one and from every stored log's, and a
\* tracking id generated afresh from the store that no stored log bears.
C11_UploadResetsSession ==
    [][lastOp' = "upload" =>
          /\ store' = store
          /\ qcStatus' = "Draft"
          /\ editedPages' = <<>>
          /\ ~initiateTranslation'
          /\ currentLogId' # currentLogId
          /\ \A i \in 1..Len(store) : store[i].id # currentLogId'
          /\ currentTrackingId' = <<Year, Cardinality({i \in 1..Len(store) :
                                        store[i].trackingId[1] = Year}) + 1>>
          /\ \A i \in 1..Len(store) : store[i].trackingId # currentTrackingId']_vars

\* an upload made over a translated, finalized session with one stored log
C11_Witness ==
    /\ lastOp = "upload"
    /\ Len(store) = 1
    /\ store[1].status = "QC Finalized"
    /\ store[1].rationales # <<>>
    /\ qcStatus = "Draft"
    /\ editedPages = <<>>
    /\ currentLogId = 2
    /\ currentTrackingId = <<Year, 2>>

\* C17: a failed parse of an uploaded file commits nothing: source pages,
\* edited pages, metrics, session status, log id, tracking id and the store
\* are as before the attempt.
C17_FailedUploadCommitsNothing ==
    [][lastOp' = "uploadFail" =>
          UNCHANGED <<sourcePages, editedPages, wordCount, qcStatus, currentLogId,
                      currentTrackingId, initiateTranslation, store>>]_vars

\* a failed upload attempted over a translated session
C17_Witness ==
    /\ lastOp = "uploadFail"
    /\ sourcePages = <<3, 5>>
    /\ Len(editedPages) = 2
    /\ qcStatus = "QC Pending"
    /\ Len(store) = 1

\* xs is an initial segment of ys
IsPrefix(xs, ys) == Len(xs) <= Len(ys) /\ SubSeq(ys, 1, Len(xs)) = xs

\* C12: the rationales of a stored log are append-only: every step keeps
\* the entries a log has, in place and unchanged (page and word index
\* included), and adds at most one at the end; each successful intervention
\* adds exactly one entry to exactly one stored log.
C12_RationalesAppendOnly ==
    [][/\ \A i \in 1..Len(store) :
             /\ i <= Len(store')
             /\ IsPrefix(store[i].rationales, store'[i].rationales)
             /\ Len(store'[i].rationales) <= Len(store[i].rationales) + 1
       /\ lastOp' = "confirm" =>
             /\ Len(store') = Len(store)
             /\ Cardinality({i \in 1..Len(store) :
                     Len(store'[i].rationales) = Len(store[i].rationales) + 1}) = 1]_vars

\* C19: after a finalize the session status is QC Finalized, the store
\* holds the session's log with status QC Finalized, review mode is off and
\* the audio playback is stopped.
C19_FinalizePostState ==
    [][lastOp' = "finalize" =>
          /\ qcStatus' = "QC Finalized"
          /\ \E i \in 1..Len(store') :
                store'[i].id = currentLogId' /\ store'[i].status = "QC Finalized"
          /\ ~isReviewMode'
          /\ ~isReading' /\ ~isPaused' /\ highlightedWordIndex' = NoIndex]_vars

\* "{year}-{seq}" with a four-digit year and seq padded to three digits
ClaimedTrackingId(year, seq) ==
    <<DigitChars[(year \div 1000) + 1], DigitChars[((year \div 100) % 10) + 1],
      DigitChars[((year \div 10) % 10) + 1], DigitChars[(year % 10) + 1], "-",
      DigitChars[(seq \div 100) + 1], DigitChars[((seq \div 10) % 10) + 1],
      DigitChars[(seq % 10) + 1]>>

\* C13: generateTrackingId returns "{year}-{seq}", seq being one more than
\* the number of stored logs of that year, padded with zeros to three
\* digits; logs of other years are not counted; the pair <<year, seq>> the
\* session model uses stands for that string.
C13_TrackingIdFormat ==
    (arg # <<>> /\ arg.fn = "generateTrackingId" /\ out # <<>>) =>
        LET ofYear == {i \in 1..Len(arg.logs) : arg.logs[i][1] = arg.year}
            logs == [i \in 1..Len(arg.logs) |-> [trackingId |-> arg.logs[i]]]
        IN /\ out[1] = ClaimedTrackingId(arg.year, Cardinality(ofYear) + 1)
           /\ out[1] = trackingIdString(generateTrackingId(logs, arg.year))

\* two logs of the year and one of the year before give 003
C13_Witness ==
    /\ arg # <<>> /\ arg.fn = "generateTrackingId"
    /\ arg.year = Year
    /\ arg.logs = <<<<Year, 1>>, <<Year - 1, 1>>, <<Year, 2>>>>
    /\ out = <<ClaimedTrackingId(Year, 3)>>

\* C15: for the word count w of the pages, tokenCount is the integer
\* nearest to 1.35 w (halves up) and estimatedCost is tokenCount / 1e6 x
\* 0.75 (here in units of 1e-8 dollar); a repeated call on the same pages
\* gives the same three values.
C15_MetricsFormulas ==
    (arg # <<>> /\ arg.fn = "calculateMetrics") =>
        \A k \in 1..Len(out) :
            LET w == out[k].wordCount
                t == out[k].tokenCount
            IN /\ w >= 0
               /\ 200 * t - 100 <= 270 * w
               /\ 270 * w < 200 * t + 100
               /\ 4 * out[k].estimatedCost = 300 * t
               /\ out[k] = out[1]

\* ten words make 13.5, rounded up to 14 tokens, on both calls
C15_Witness ==
    /\ arg # <<>> /\ arg.fn = "calculateMetrics"
    /\ arg.pages = <<4, 6>>
    /\ Len(out) = 2
    /\ out[2] = [wordCount |-> 10, tokenCount |-> 14, estimatedCost |-> 1050]

\* the part of str from its first open to its last close, empty when either
\* is missing or the close comes first
Slice(str, open, close) ==
    LET opens == {i \in 1..Len(str) : str[i] = open}
        closes == {i \in 1..Len(str) : str[i] = close}
    IN IF opens = {} \/ closes = {} THEN <<>>
       ELSE LET lo == CHOOSE i \in opens : \A j \in opens : i <= j
                hi == CHOOSE i \in closes : \A j \in closes : i >= j
            IN IF hi < lo THEN <<>> ELSE SubSeq(str, lo, hi)

\* C16: extractJson always returns: null for the empty text; otherwise,
\* with the fences at the two ends stripped, the parse of the first of
\* these that parses: the text from the first [ to the last ], the text from
\* the first { to the last }, the whole text; and null when none parses.
C16_ExtractJsonOrder ==
    (arg # <<>> /\ arg.fn = "extractJson" /\ out # <<>>) =>
        LET clean == stripFences(arg.text)
            candidates == <<Slice(clean, "[", "]"), Slice(clean, "{", "}"), clean>>
            good == {k \in 1..3 : parses(candidates[k])}
        IN /\ out[1] = Null \/ (DOMAIN out[1] = {"json"} /\ parses(out[1].json))
           /\ arg.text = <<>> => out[1] = Null
           /\ (arg.text # <<>> /\ good = {}) => out[1] = Null
           /\ (arg.text # <<>> /\ good # {}) =>
                 out[1] = JsonValue(candidates[CHOOSE k \in good : \A m \in good : k <= m])

\* the bracket candidate [{}]] does not parse, the brace candidate {} does
C16_Witness ==
    /\ arg # <<>> /\ arg.fn = "extractJson"
    /\ arg.text = <<"[", "{", "}", "]", "]">>
    /\ out = <<JsonValue(<<"{", "}">>)>>

\* C14: translateDocument sends one gateway call per input page, in page
\* order, each only when every earlier call has been answered; a list
\* returned has the length of the input and its element i is the response
\* to page i, after exactly one call per page.
C14_TranslateSequential ==
    [][/\ (translateCall # <<>> /\ translateCall' # <<>>
           /\ translateCall'[1].calls # translateCall[1].calls) =>
             LET c == translateCall[1]
             IN /\ c.pending = {}
                /\ Len(c.results) = Len(c.calls)
                /\ translateCall'[1].calls = Append(c.calls, Len(c.calls))
       /\ (out' # <<>> /\ "value" \in DOMAIN out'[1] /\ arg.isArray) =>
             LET c == translateCall'[1]
                 n == Len(arg.content)
             IN /\ Len(out'[1].value) = n
                /\ \A k \in 1..n : out'[1].value[k].of = arg.content[k]
                /\ c.calls = [k \in 1..n |-> k - 1]]_vars

\* three pages translated and returned in order
C14_Witness ==
    /\ arg # <<>> /\ arg.fn = "translateDocument"
    /\ arg.content = <<"p", "q", "p">>
    /\ out # <<>> /\ "value" \in DOMAIN out[1]
    /\ Len(out[1].value) = 3
    /\ out[1].value[2] = [of |-> "q", text |-> "t"]
    /\ translateCall[1].calls = <<0, 1, 2>>

\* C18: the QC seconds counter changes only by a timer tick that adds one,
\* and only in a state with review mode active, status QC Pending and no
\* intervention dialog open; a tick in any other state leaves it unchanged.
C18_TimerAccruesOnlyInReview ==
    [][/\ qcSeconds' # qcSeconds =>
             /\ lastOp' = "tick"
             /\ qcSeconds' = qcSeconds + 1
             /\ isReviewMode /\ qcStatus = "QC Pending" /\ ~isWordModalOpen
       /\ (lastOp' = "tick" /\ ~(isReviewMode /\ qcStatus = "QC Pending"
                                   /\ ~isWordModalOpen)) =>
             qcSeconds' = qcSeconds]_vars

\* a second counted in review, then a tick that goes by with the dialog open
C18_Witness ==
    /\ lastOp = "tick"
    /\ qcSeconds = 1
    /\ isReviewMode /\ qcStatus = "QC Pending"
    /\ isWordModalOpen

\* C20: with one component working on the store, no two stored logs bear
\* the same tracking id, whatever the uploads and the translations, those
\* that fail and those overtaken by an upload included.
C20_TrackingIdsUnique ==
    \A i, j \in 1..Len(store) :
        i # j => trackingIdString(store[i].trackingId) # trackingIdString(store[j].trackingId)

\* a second log, stored by a translate call that an upload overtook
C20_Witness ==
    /\ lastOp = "translateFinish"
    /\ Len(store) = 2
    /\ store[2].id # currentLogId
    /\ store[1].trackingId = <<Year, 1>>
    /\ store[2].trackingId = <<Year, 2>>

\* C21: after an upload editedPages stays empty and the status stays Draft
\* until a translate call made for the uploaded document completes: only the
\* completion of a call that carries the session's log id and source pages
\* fills editedPages or leaves Draft, and the log it stores bears the
\* session's id.
C21_NoStaleInstall ==
    [][/\ (\/ editedPages = <<>> /\ editedPages' # <<>>
           \/ qcStatus = "Draft" /\ qcStatus' # "Draft") =>
             /\ lastOp' = "translateFinish"
             /\ translateCall[1].logId = currentLogId
             /\ translateCall[1].input = sourcePages
       /\ lastOp' = "translateFinish" =>
             /\ translateCall[1].logId = currentLogId
             /\ store'[Len(store')].id = currentLogId']_vars

\* C22: an intervention is recorded only while the session status is QC
\* Pending, and no step changes the rationales, the mqmErrorScore or the
\* qualityScore of a stored log whose status is QC Finalized or Downloaded.
C22_FinalizedLogsFrozen ==
    [][/\ lastOp' = "confirm" => qcStatus = "QC Pending"
       /\ \A i \in 1..Len(store) :
             store[i].status \in {"QC Finalized", "Downloaded"} =>
                 /\ i <= Len(store')
                 /\ store'[i].rationales = store[i].rationales
                 /\ store'[i].mqmErrorScore = store[i].mqmErrorScore
                 /\ store'[i].qualityScore = store[i].qualityScore]_vars

\* C23: whenever the session status is QC Pending, QC Finalized or
\* Downloaded, the store holds a log with the session's log id whose stored
\* status is the session status.
C23_SessionLogPersisted ==
    qcStatus \in {"QC Pending", "QC Finalized", "Downloaded"} =>
        \E i \in 1..Len(store) :
            store[i].id = currentLogId /\ store[i].status = qcStatus

\* C26: a translate call starts only in a state with no call in flight and
\* the loading flag false, with the initiate flag set, source pages present
\* and editedPages empty; the loading flag is true exactly while a call is
\* in flight; and no handler leaves a state in which the effect of lines
\* 78-82 would start a further call.
C26_OneTranslateInFlight ==
    [][/\ (translateCall' # <<>> /\ translateCall' # translateCall
           /\ translateCall'[1].results = <<>>) =>
             /\ translateCall = <<>>
             /\ ~isLoading
             /\ initiateTranslation'
             /\ Len(sourcePages) > 0
             /\ Len(editedPages) = 0
             /\ translateCall'[1].input = sourcePages
       /\ isLoading' = (translateCall' # <<>>)
       /\ Len(translateCall') <= 1
       /\ ~(/\ initiateTranslation' /\ Len(sourcePages') > 0
            /\ ~isLoading' /\ Len(editedPages') = 0)]_vars

\* the initiate flag set again for a new document while the call made for
\* the previous one is still in flight: no second call starts
C26_Witness ==
    /\ initiateTranslation
    /\ isLoading
    /\ translateCall # <<>>
    /\ translateCall[1].logId # currentLogId
    /\ translateCall[1].input # sourcePages
    /\ editedPages = <<>>

\* C28: the page cursor is never negative, is below the number of source
\* pages whenever a document is loaded, and is 0 when none is.
C28_PageCursorInBounds ==
    /\ currentPage >= 0
    /\ sourcePages # <<>> => currentPage < Len(sourcePages)
    /\ sourcePages = <<>> => currentPage = 0

\* C30: the in-memory rationales equal the rationales of the session's
\* stored log: they are empty right after an upload, and they grow only by
\* the entry that the same step appends to the session's stored log.
C30_InMemoryMatchesPersisted ==
    [][/\ lastOp' = "upload" => rationales' = <<>>
       /\ \A i \in 1..Len(store') :
             store'[i].id = currentLogId' => rationales' = store'[i].rationales
       /\ rationales' # rationales =>
             /\ Len(rationales') = Len(rationales) + 1
             /\ \E i \in 1..Len(store) :
                   /\ store[i].id = currentLogId
                   /\ store'[i].rationales =
                         Append(store[i].rationales, rationales'[Len(rationales')])]_vars

\* C29: for a text that is itself a JSON value, bare or wrapped in a json
\* code fence, extractJson returns the value of the whole text: an object
\* that holds an array comes back as the object, not as the array.
C29_WholeJsonReturned ==
    (arg # <<>> /\ arg.fn = "extractJson" /\ out # <<>>) =>
        LET text == arg.text
            inner == SubSeq(text, 3, Len(text) - 1)
        IN /\ parses(text) => out[1] = JsonValue(text)
           /\ (/\ Len(text) >= 4
               /\ startsWith(text, <<"F", "J">>)
               /\ text[Len(text)] = "F"
               /\ parses(inner)) => out[1] = JsonValue(inner)

\* C24: for every page text, leading or trailing white space included, the
\* word the review view shows at index i (split after trim) is the word at
\* index i of the split confirmIntervention takes (split without trim).
C24_ClickedTokenIsReplaced ==
    (arg # <<>> /\ arg.fn = "words" /\ out # <<>>) =>
        \A i \in 1..Len(out[1].shown) :
            /\ i <= Len(out[1].replaced)
            /\ out[1].replaced[i] = out[1].shown[i]

\* C25: an intervention at (pageIndex, wordIndex) changes exactly one token
\* of that page: split on white space, the new page has the tokens of the
\* old one with the replacement at wordIndex, and it is those tokens joined
\* by single blanks; the other pages are unchanged.
C25_ExactlyOneTokenChanges ==
    (arg # <<>> /\ arg.fn = "confirmIntervention" /\ out # <<>>) =>
        LET page == Len(arg.before) + 1
            pages == arg.before \o <<arg.text>> \o arg.after
            old == split(arg.text)
            new == split(out[1][page])
        IN /\ Len(out[1]) = Len(pages)
           /\ \A p \in 1..Len(pages) : p # page => out[1][p] = pages[p]
           /\ Len(new) = Len(old)
           /\ arg.index + 1 <= Len(new)
           /\ new[arg.index + 1] = arg.alt
           /\ \A j \in 1..Len(old) : j # arg.index + 1 => new[j] = old[j]
           /\ out[1][page] = join(new)

\* C27: whenever the dialog is open and not fetching, every alternative it
\* offers was returned for the word the dialog is open on.
C27_AlternativesOfSelectedWord ==
    (isWordModalOpen /\ ~isFetchingAlts) =>
        \A k \in 1..Len(alternatives) : alternatives[k].of = selectedWordData[1].word

====
